---- MODULE Spec2Model ----
(***************************************************************************)
(* Frame lifecycle and presentation synchronisation of the renderer:       *)
(* Renderer (renderer.rs), Swapchain (swapchain.rs), FrameSynchronizer     *)
(* (sync.rs) and the RenderFrame guard whose Drop submits and presents.    *)
(*                                                                         *)
(* One thread drives the Renderer, so every public operation is one        *)
(* atomic action.  The GPU runs concurrently: a batch submitted with a     *)
(* fence completes at some later moment (GpuComplete), or inside a call    *)
(* that blocks on it.  Every fallible Vulkan call has its outcomes as      *)
(* inputs of the action that makes it.  Renderer.projection, which no       *)
(* step of the frame cycle reads, is left out.  The pipeline cache         *)
(* (pipeline_manager.rs) shares nothing with the frame cycle but the       *)
(* teardown and is driven in runs of its own.                              *)
(***************************************************************************)
EXTENDS Integers, Sequences, FiniteSets, TLC

\* ---------------------------------------------------------------- bounds
\* widths and heights range over 0..MaxDim
MaxDim == 2
\* the driver gives a swapchain between min_image_count and MaxImages images
MaxImages == 3
\* at most MaxSwapchains swapchains are ever created (handles 0..MaxSwapchains-1)
MaxSwapchains == 2
\* begin_frame is driven until MaxCycles frames have been handed out
MaxCycles == 2
\* ... and until LongRun frames in the runs that never resize
LongRun == 10
\* at most MaxFaults Vulkan calls report an error in one run
MaxFaults == 1
\* PipelineId::build is tried at most MaxBuilds times for one id
MaxBuilds == 2

\* ------------------------------------------------------ program constants
\* renderer.rs:237  let max_frames_in_flight = 2;
max_frames_in_flight == 2
\* renderer.rs:232  min_image_count argument of Swapchain::new
min_image_count == 2

\* pipeline_manager.rs:12-19: the variants of PipelineId, in declaration order
BasicGeometry == 0
UI == 1
Text == 2
PipelineId == {BasicGeometry, UI, Text}

Slots == 0 .. (max_frames_in_flight - 1)
Dims == 0 .. MaxDim
ImageCounts == min_image_count .. MaxImages
\* Option::None for an index, vk::SwapchainKHR::null() for a handle
None == -1

VARIABLES
    pc,                \* "idle" | "calling" (inside begin_frame) | "hung" (blocked
                       \* in a wait for ever) | "panicked" | "dropped" (Renderer
                       \* torn down) | "crashed"
    needs_rebuild,     \* Renderer.needs_rebuild
    current_frame,     \* Renderer.current_frame
    swapchain,         \* Renderer.swapchain: handle, image count, image views, extent
    created,           \* number of swapchains created so far (the next fresh handle)
    destroyed,         \* swapchain handles passed to destroy_swapchain
    destroyed_views,   \* swapchain handles whose image views were destroyed
    sync_alive,        \* the semaphores and fences of frame_sync are not destroyed
    sync_images,       \* length of render_finished_semaphores and images_in_flight
    in_flight_fences,  \* fence of each slot: "signaled" | "unsignaled" | "pending"
    images_in_flight,  \* per image: None or the slot whose fence owns it
    buffers,           \* command buffer of each slot: its Vulkan lifecycle state
    image_available,   \* acquire semaphore of each slot: "unsignaled" | "signaled"
    acquired,          \* images of the current swapchain acquired and not presented
    frames,            \* the RenderFrames handed out and not yet dropped
    nSuccess,          \* begin_frame calls that returned Some
    nSubmit,           \* queue_submit calls
    nPresent,          \* queue_present calls
    faults,            \* Vulkan calls that have reported an error so far
    last,              \* the latest call on the API: what it was, returned and did
    pipelines,         \* PipelineManager.pipelines: per id, None or the cached handle
    layouts,           \* PipelineManager.layouts: per id, None or the cached handle
    builds             \* per id: PipelineId::build calls tried, and pipelines made

vars == << pc, needs_rebuild, current_frame, swapchain, created,
           destroyed, destroyed_views, sync_alive, sync_images, in_flight_fences,
           images_in_flight, buffers, image_available, acquired, frames, nSuccess,
           nSubmit, nPresent, faults, last, pipelines, layouts, builds >>

\* One Vulkan call in the trace of a handler: its name and up to three handles.
Op(name, a, b, c) == << name, a, b, c >>

\* ------------------------------------------------------- FrameSynchronizer
\* Handles are numbered in creation order (sync.rs:29-58): the acquire
\* semaphores first, one per slot, then the render-finished ones, one per image.
get_acquire_semaphore(frame_index) == frame_index

get_render_finished_semaphore(image_index) == max_frames_in_flight + image_index

get_fence(frame_index) == frame_index

\* ------------------------------------------------------------------- GPU
\* The batch guarded by fence s finishes: the fence signals and the
\* ONE_TIME_SUBMIT command buffer leaves the pending state.
Completed(fs, s) == [fs EXCEPT ![s] = "signaled"]

Retired(bs, s) == [bs EXCEPT ![s] = IF @ = "pending" THEN "invalid" ELSE @]

\* device_wait_idle: every submitted batch has finished on return.
IdleFences(fs) == [s \in Slots |-> IF fs[s] = "pending" THEN "signaled" ELSE fs[s]]

IdleBuffers(bs) == [s \in Slots |-> IF bs[s] = "pending" THEN "invalid" ELSE bs[s]]

NoCall == [op |-> "new", ret |-> "ok", w |-> 0, h |-> 0, slot |-> None,
           image |-> None, extent |-> << 0, 0 >>, ops |-> << >>,
           id |-> None, pipeline |-> None]

\* ---------------------------------------------------------- Renderer::new
\* the fields of the frame cycle (renderer.rs:224-263)
InitFrame ==
    /\ pc = "idle"
    /\ needs_rebuild = FALSE
    /\ current_frame = 0
    /\ \E w \in Dims \ {0}, h \in Dims \ {0}, n \in ImageCounts :
          /\ swapchain = [swapchain |-> 0, images |-> n, image_views |-> 0,
                          extent |-> << w, h >>]
          /\ sync_images = n
          /\ images_in_flight = [i \in 0 .. (n - 1) |-> None]
    /\ created = 1
    /\ destroyed = {}
    /\ destroyed_views = {}
    /\ sync_alive = TRUE
    /\ in_flight_fences = [s \in Slots |-> "signaled"]
    /\ buffers = [s \in Slots |-> "initial"]
    /\ image_available = [s \in Slots |-> "unsignaled"]
    /\ acquired = {}
    /\ frames = {}
    /\ nSuccess = 0
    /\ nSubmit = 0
    /\ nPresent = 0
    /\ faults = 0
    /\ last = NoCall

\* Renderer::new returns a Renderer only when build_all has built every
\* pipeline (renderer.rs:250-251): the cache starts full.
Init ==
    /\ InitFrame
    /\ pipelines = [id \in PipelineId |-> id]
    /\ layouts = [id \in PipelineId |-> id]
    /\ builds = [id \in PipelineId |-> [tried |-> 1, made |-> 1]]

\* ------------------------------------------------------ Swapchain::recreate
\* the new extent not stored: the fields keep the extent of the old swapchain
RecreatedStaleExtent(extent, n) ==
    [swapchain |-> created, images |-> n, image_views |-> created,
     extent |-> swapchain.extent]

\* The swapchain after recreate(extent) when create_swapchain succeeds and the
\* driver gives n images: every field is replaced by the new swapchain's.
Recreated(extent, n) ==
    [swapchain |-> created, images |-> n, image_views |-> created, extent |-> extent]

\* the old swapchain and its views destroyed before the new swapchain is made
RecreateOpsDestroyFirst(extent) ==
    << Op("device_wait_idle", None, None, None),
       Op("destroy_image_views", swapchain.image_views, None, None),
       Op("destroy_swapchain", swapchain.swapchain, None, None),
       Op("create_swapchain", created, swapchain.swapchain, None),
       Op("replace", created, extent[1], extent[2]),
       Op("device_wait_idle", None, None, None) >>

\* swapchain.rs:47-92: the calls of recreate(extent), in the order made
RecreateOps(extent) ==
    << Op("device_wait_idle", None, None, None),
       Op("create_swapchain", created, swapchain.swapchain, None),
       Op("replace", created, extent[1], extent[2]),
       Op("device_wait_idle", None, None, None),
       Op("destroy_image_views", swapchain.image_views, None, None),
       Op("destroy_swapchain", swapchain.swapchain, None, None) >>

\* recreate, as called by handle_resize.  create_swapchain failing is the
\* expect() panic of create_swapchain_internal, after image_views was taken.
Recreate(extent, n, createOk) ==
    /\ in_flight_fences' = IdleFences(in_flight_fences)
    /\ buffers' = IdleBuffers(buffers)
    /\ IF createOk
       THEN /\ swapchain' = Recreated(extent, n)
            /\ created' = created + 1
            /\ destroyed' = destroyed \cup {swapchain.swapchain}
            /\ destroyed_views' = destroyed_views \cup {swapchain.image_views}
            /\ acquired' = {}
            /\ pc' = pc
       ELSE /\ swapchain' = [swapchain EXCEPT !.image_views = None]
            /\ pc' = "panicked"
            /\ UNCHANGED << created, destroyed, destroyed_views, acquired >>

\* ------------------------------------------------- Renderer::handle_resize
\* the comparison with the current extent left out
SizeChangedUnchecked(width, height) ==
    /\ width > 0
    /\ height > 0

\* the test for a zero width or height left out
SizeChangedAnySize(width, height) ==
    width # swapchain.extent[1] \/ height # swapchain.extent[2]

\* renderer.rs:269
SizeChanged(width, height) ==
    /\ width > 0
    /\ height > 0
    /\ (width # swapchain.extent[1] \/ height # swapchain.extent[2])

\* the recreate put off: the call only raises the rebuild flag
HandleResizeDeferred(width, height, n, createOk) ==
    /\ pc = "idle"
    /\ n = min_image_count
    /\ createOk
    /\ needs_rebuild' = (needs_rebuild \/ SizeChanged(width, height))
    /\ last' = [NoCall EXCEPT !.op = "handle_resize", !.w = width, !.h = height,
                  !.ret = IF SizeChanged(width, height) THEN "queued" ELSE "noop"]
    /\ UNCHANGED << pc, current_frame, swapchain, created, destroyed, destroyed_views,
                    sync_alive, sync_images, in_flight_fences, images_in_flight,
                    buffers, image_available, acquired, frames, nSuccess, nSubmit,
                    nPresent, faults, pipelines, layouts, builds >>

HandleResize(width, height, n, createOk) ==
    /\ pc = "idle"
    /\ IF SizeChanged(width, height)
       THEN /\ created < MaxSwapchains
            /\ createOk \/ faults < MaxFaults
            /\ Recreate(<< width, height >>, n, createOk)
            /\ faults' = IF createOk THEN faults ELSE faults + 1
            /\ last' = [NoCall EXCEPT !.op = "handle_resize", !.w = width, !.h = height,
                          !.ret = IF createOk THEN "recreated" ELSE "panic",
                          !.ops = IF createOk
                                  THEN RecreateOps(<< width, height >>)
                                  ELSE SubSeq(RecreateOps(<< width, height >>), 1, 2)]
       ELSE /\ n = min_image_count
            /\ createOk
            /\ last' = [NoCall EXCEPT !.op = "handle_resize", !.w = width, !.h = height,
                          !.ret = "noop"]
            /\ UNCHANGED << pc, swapchain, created, destroyed, destroyed_views,
                            in_flight_fences, buffers, acquired, faults >>
    /\ UNCHANGED << needs_rebuild, current_frame, sync_alive, sync_images,
                    images_in_flight, image_available, frames, nSuccess, nSubmit,
                    nPresent, pipelines, layouts, builds >>

\* --------------------------------------------------- Renderer::begin_frame
\* begin_frame runs as a chain of steps over a running state st.  st.ret is
\* "running" until a step returns, panics or blocks; later steps then pass st
\* through.  fail names the one Vulkan call that reports an error in this
\* invocation ("none": no call fails); img is the index the driver hands out.
FailPoints == {"none", "wait", "out_of_date", "acquire", "owner_wait",
               "reset_fence", "reset_cmd", "begin_cmd"}

\* the results of a call in which a Vulkan call reported an error
Failed == {"none_wait", "none_out_of_date", "none_acquire", "none_owner_wait",
           "none_reset_fence", "none_reset_cmd", "none_begin_cmd"}

\* what begin_frame returns when the call named by fail reports its error
FailureOf(fail) ==
    CASE fail = "wait" -> "none_wait"
      [] fail = "out_of_date" -> "none_out_of_date"
      [] fail = "acquire" -> "none_acquire"
      [] fail = "owner_wait" -> "none_owner_wait"
      [] fail = "reset_fence" -> "none_reset_fence"
      [] fail = "reset_cmd" -> "none_reset_cmd"
      [] fail = "begin_cmd" -> "none_begin_cmd"
      [] OTHER -> "frame"

Start ==
    [ret |-> "running", ops |-> << >>, pc |-> pc, needs_rebuild |-> needs_rebuild,
     fences |-> in_flight_fences, buffers |-> buffers, owners |-> images_in_flight,
     sems |-> image_available, acquired |-> acquired, image |-> None]

Log(st, op) == [st EXCEPT !.ops = Append(@, op)]

Return(st, why) == [st EXCEPT !.ret = why]

\* a wait that comes back at once, whatever the state of the fence
WaitFenceNoBlock(st, f, err, why) ==
    LET w == Log(st, Op("wait_for_fences", f, None, None))
    IN  IF err THEN Return(w, why) ELSE w

\* A wait with timeout u64::MAX on fence f: returns an error, blocks until the
\* batch signals the fence, or blocks forever when nothing will signal it.
\* A wait that had to sleep until the GPU finished leaves "blocked" in the
\* trace, after the call.
WaitFence(st, f, err, why) ==
    LET w == Log(st, Op("wait_for_fences", f, None, None))
    IN  IF err THEN Return(w, why)
        ELSE IF w.fences[f] = "unsignaled"
             THEN [w EXCEPT !.ret = "hung", !.pc = "hung"]
             ELSE IF w.fences[f] = "pending"
             THEN Log([w EXCEPT !.fences = Completed(@, f), !.buffers = Retired(@, f)],
                      Op("blocked", f, None, None))
             ELSE w

\* renderer.rs:289-292
CheckRebuild(st) ==
    IF st.needs_rebuild
    THEN [st EXCEPT !.needs_rebuild = FALSE, !.ret = "none_rebuild"]
    ELSE st

\* the wait left out
wait_for_frame_skipped(st, fail) == st

\* the fence reset as soon as the wait returns
wait_for_frame_and_reset(st, fail) ==
    IF st.ret # "running" THEN st
    ELSE LET w == WaitFence(st, get_fence(current_frame), fail = "wait", "none_wait")
         IN  IF w.ret # "running" THEN w
             ELSE [w EXCEPT !.fences[current_frame] = "unsignaled"]

\* renderer.rs:295, sync.rs:74-80
wait_for_frame(st, fail) ==
    IF st.ret # "running" THEN st
    ELSE WaitFence(st, get_fence(current_frame), fail = "wait", "none_wait")

\* The images the presentation engine can hand out: those of the current
\* swapchain that the application has not acquired already.
Available == (0 .. (swapchain.images - 1)) \ acquired

\* "out of date" handled like any other error: the flag not raised
acquire_next_image_unflagged(st, fail, img) ==
    IF st.ret # "running" THEN st
    ELSE LET a == Log(st, Op("acquire_next_image", swapchain.swapchain,
                             get_acquire_semaphore(current_frame), None))
         IN  IF fail = "out_of_date" THEN Return(a, "none_out_of_date")
             ELSE IF fail = "acquire" THEN Return(a, "none_acquire")
             ELSE IF img = None THEN [a EXCEPT !.ret = "hung", !.pc = "hung"]
             ELSE [a EXCEPT !.image = img,
                            !.acquired = @ \cup {img},
                            !.sems[current_frame] = "signaled"]

\* every error of the acquire raises the flag
acquire_next_image_flag_on_error(st, fail, img) ==
    IF st.ret # "running" THEN st
    ELSE LET a == Log(st, Op("acquire_next_image", swapchain.swapchain,
                             get_acquire_semaphore(current_frame), None))
         IN  IF fail = "out_of_date"
             THEN [a EXCEPT !.needs_rebuild = TRUE, !.ret = "none_out_of_date"]
             ELSE IF fail = "acquire"
             THEN [a EXCEPT !.needs_rebuild = TRUE, !.ret = "none_acquire"]
             ELSE IF img = None THEN [a EXCEPT !.ret = "hung", !.pc = "hung"]
             ELSE [a EXCEPT !.image = img,
                            !.acquired = @ \cup {img},
                            !.sems[current_frame] = "signaled"]

\* renderer.rs:298-317: acquire_next_image with timeout u64::MAX, signalling
\* the slot's acquire semaphore.
acquire_next_image(st, fail, img) ==
    IF st.ret # "running" THEN st
    ELSE LET a == Log(st, Op("acquire_next_image", swapchain.swapchain,
                             get_acquire_semaphore(current_frame), None))
         IN  IF fail = "out_of_date"
             THEN [a EXCEPT !.needs_rebuild = TRUE, !.ret = "none_out_of_date"]
             ELSE IF fail = "acquire" THEN Return(a, "none_acquire")
             ELSE IF img = None THEN [a EXCEPT !.ret = "hung", !.pc = "hung"]
             ELSE [a EXCEPT !.image = img,
                            !.acquired = @ \cup {img},
                            !.sems[current_frame] = "signaled"]

\* renderer.rs:320: indexing render_finished_semaphores panics out of range.
render_finished(st) ==
    IF st.ret # "running" THEN st
    ELSE IF st.image >= sync_images
         THEN [st EXCEPT !.ret = "panic", !.pc = "panicked"]
         ELSE st

\* the owner check left out
wait_if_owned_skipped(st, fail) == st

\* the wait made only when the owner is the fence of the other slot
wait_if_owned_by_other(st, fail) ==
    IF st.ret # "running" THEN st
    ELSE IF st.owners[st.image] \notin {None, get_fence(current_frame)}
         THEN WaitFence(st, st.owners[st.image], fail = "owner_wait", "none_owner_wait")
         ELSE st

\* the wait made on the fence of the other slot, owner of the image or not
wait_if_owned_any(st, fail) ==
    IF st.ret # "running" THEN st
    ELSE WaitFence(st, get_fence((current_frame + 1) % max_frames_in_flight),
                   fail = "owner_wait", "none_owner_wait")

\* renderer.rs:323-327
wait_if_owned(st, fail) ==
    IF st.ret # "running" THEN st
    ELSE IF st.owners[st.image] # None
         THEN WaitFence(st, st.owners[st.image], fail = "owner_wait", "none_owner_wait")
         ELSE st

\* renderer.rs:330
\* renderer.rs:329-330
mark_image_owner(st) ==
    IF st.ret # "running" THEN st
    ELSE Log([st EXCEPT !.owners[st.image] = get_fence(current_frame)],
             Op("mark_image_owner", st.image, get_fence(current_frame), None))

\* the advance to the next slot left out
NextSlotStuck(frame_index) == frame_index

\* the advance without the wrap at max_frames_in_flight
NextSlotUnwrapped(frame_index) == frame_index + 1

\* renderer.rs:381
NextSlot(frame_index) == (frame_index + 1) % max_frames_in_flight

\* the fence of the next slot reset instead of the fence of the current one
reset_fence_next_slot(st, fail) ==
    IF st.ret # "running" THEN st
    ELSE LET r == Log(st, Op("reset_fences", get_fence(NextSlot(current_frame)),
                             None, None))
         IN  IF fail = "reset_fence" THEN Return(r, "none_reset_fence")
             ELSE [r EXCEPT !.fences[NextSlot(current_frame)] = "unsignaled"]

\* renderer.rs:333, sync.rs:83-89
reset_fence(st, fail) ==
    IF st.ret # "running" THEN st
    ELSE LET r == Log(st, Op("reset_fences", get_fence(current_frame), None, None))
         IN  IF fail = "reset_fence" THEN Return(r, "none_reset_fence")
             ELSE [r EXCEPT !.fences[current_frame] = "unsignaled"]

\* renderer.rs:335-343
reset_command_buffer(st, fail) ==
    IF st.ret # "running" THEN st
    ELSE LET r == Log(st, Op("reset_command_buffer", current_frame, None, None))
         IN  IF fail = "reset_cmd" THEN Return(r, "none_reset_cmd")
             ELSE [r EXCEPT !.buffers[current_frame] = "initial"]

begin_command_buffer(st, fail) ==
    IF st.ret # "running" THEN st
    ELSE LET r == Log(st, Op("begin_command_buffer", current_frame, None, None))
         IN  IF fail = "begin_cmd" THEN Return(r, "none_begin_cmd")
             ELSE [r EXCEPT !.buffers[current_frame] = "recording"]

\* renderer.rs:345-364: the render context, the layout transition and the
\* start of rendering, recorded into the slot's command buffer.
begin_rendering(st) ==
    IF st.ret # "running" THEN st
    ELSE Return(Log(Log(st, Op("transition_image", st.image, None, None)),
                    Op("begin_rendering", swapchain.image_views, st.image, None)),
                "frame")

\* the positions of the calls named name in a trace
Calls(ops, name) == {k \in 1 .. Len(ops) : ops[k][1] = name}

\* renderer.rs:287-384, the steps in program order, innermost first: the state
\* each step leaves is bound before the next step reads it
BeginFrameRun(fail, img) ==
    CHOOSE done \in
       {begin_rendering(s8) : s8 \in
       {begin_command_buffer(s7, fail) : s7 \in
       {reset_command_buffer(s6, fail) : s6 \in
       {reset_fence(s5, fail) : s5 \in
       {mark_image_owner(s4) : s4 \in
       {wait_if_owned(s3, fail) : s3 \in
       {render_finished(s2) : s2 \in
       {acquire_next_image(s1, fail, img) : s1 \in
       {wait_for_frame(s0, fail) : s0 \in
       {CheckRebuild(Start)}}}}}}}}}} : TRUE

\* the render-finished semaphore keyed by frame slot instead of by image
NewFrameSlotKeyed(image_index) ==
    [slot |-> current_frame,
     image_index |-> image_index,
     swapchain |-> swapchain.swapchain,
     extent |-> swapchain.extent,
     cmd_buffer |-> current_frame,
     wait_semaphore |-> get_acquire_semaphore(current_frame),
     signal_semaphore |-> get_render_finished_semaphore(current_frame),
     fence |-> get_fence(current_frame)]

\* the frame built after the advance: it records the slot the index moved to
NewFrameAfterAdvance(image_index) ==
    [slot |-> NextSlot(current_frame),
     image_index |-> image_index,
     swapchain |-> swapchain.swapchain,
     extent |-> swapchain.extent,
     cmd_buffer |-> current_frame,
     wait_semaphore |-> get_acquire_semaphore(current_frame),
     signal_semaphore |-> get_render_finished_semaphore(image_index),
     fence |-> get_fence(current_frame)]

\* renderer.rs:366-378: the RenderFrame handed to the caller
NewFrame(image_index) ==
    [slot |-> current_frame,
     image_index |-> image_index,
     swapchain |-> swapchain.swapchain,
     extent |-> swapchain.extent,
     cmd_buffer |-> current_frame,
     wait_semaphore |-> get_acquire_semaphore(current_frame),
     signal_semaphore |-> get_render_finished_semaphore(image_index),
     fence |-> get_fence(current_frame)]

\* One begin_frame call, run from the control state from (renderer.rs:287-384);
\* a call that returns leaves the Renderer idle.
BeginFrameStep(from, limit, fail, img) ==
    /\ pc = from
    /\ nSuccess < limit
    /\ fail = "none" \/ faults < MaxFaults
    /\ IF Available = {} THEN img = None ELSE img \in Available
    /\ \E st \in {BeginFrameRun(fail, img)} :
           \* inputs the call never consumes are not enumerated twice
           /\ fail = "none" \/ st.ret = FailureOf(fail)
           /\ st.image = img \/ \A j \in Available : img <= j
           /\ pc' = IF st.pc = from THEN "idle" ELSE st.pc
           /\ faults' = IF st.ret \in Failed THEN faults + 1 ELSE faults
           /\ needs_rebuild' = st.needs_rebuild
           /\ in_flight_fences' = st.fences
           /\ buffers' = st.buffers
           /\ images_in_flight' = st.owners
           /\ image_available' = st.sems
           /\ acquired' = st.acquired
           /\ IF st.ret = "frame"
              THEN /\ frames' = frames \cup {NewFrame(st.image)}
                   /\ current_frame' = NextSlot(current_frame)
                   /\ nSuccess' = nSuccess + 1
              ELSE UNCHANGED << frames, current_frame, nSuccess >>
           /\ last' = [NoCall EXCEPT !.op = "begin_frame", !.ret = st.ret,
                         !.ops = st.ops, !.slot = current_frame, !.image = st.image,
                         !.extent = IF st.ret = "frame" THEN swapchain.extent
                                    ELSE << 0, 0 >>]
    /\ UNCHANGED << swapchain, created, destroyed, destroyed_views,
                    sync_alive, sync_images, nSubmit, nPresent, pipelines, layouts,
                    builds >>

BeginFrameUpTo(limit, fail, img) == BeginFrameStep("idle", limit, fail, img)

BeginFrame(fail, img) == BeginFrameUpTo(MaxCycles, fail, img)

\* The caller enters begin_frame, having released every frame it was given.
BeginFrameCall ==
    /\ pc = "idle"
    /\ frames = {}
    /\ nSuccess < LongRun
    /\ pc' = "calling"
    /\ UNCHANGED << needs_rebuild, current_frame, swapchain, created, destroyed,
                    destroyed_views, sync_alive, sync_images, in_flight_fences,
                    images_in_flight, buffers, image_available, acquired, frames,
                    nSuccess, nSubmit, nPresent, faults, last, pipelines, layouts,
                    builds >>

\* The call that was entered runs to its end.  A wait on a fence whose batch is
\* still running keeps the thread asleep: the call goes on only when the GPU
\* has signaled the fence, so that no wait in it has to sleep.
BeginFrameReturn(fail, img) ==
    /\ pc = "calling"
    /\ Calls(BeginFrameRun(fail, img).ops, "blocked") = {}
    /\ BeginFrameStep("calling", LongRun, fail, img)

BeginFrameLong(fail, img) == BeginFrameUpTo(LongRun, fail, img)

\* ------------------------------------------------------ Drop for RenderFrame
\* The frame holds raw handles, not borrows: they may have been destroyed by a
\* recreate or by the Renderer's teardown before the frame is dropped.
StaleSwapchain(f) == f.swapchain \in destroyed

StaleSync == ~sync_alive

\* Using a destroyed handle is undefined: the call may return (with or without
\* an error, which the code ignores) or take the process down.  crashAt names
\* the call in which the process dies, "none" when every call returns.
CrashPoints == {"none", "record", "submit", "present"}

CanCrash(f, crashAt) ==
    \/ crashAt = "none"
    \/ crashAt = "record" /\ StaleSwapchain(f)
    \/ crashAt \in {"submit", "present"} /\ (StaleSwapchain(f) \/ StaleSync)

\* renderer.rs:435-468, the calls in program order
ReleaseOps(f) ==
    << Op("end_rendering", f.cmd_buffer, None, None),
       Op("transition_image", f.image_index, None, None),
       Op("end_command_buffer", f.cmd_buffer, None, None),
       Op("queue_submit", f.wait_semaphore, f.signal_semaphore, f.fence),
       Op("queue_present", f.signal_semaphore, f.swapchain, f.image_index) >>

\* the release given up when queue_submit reports an error
CallsMadeUnlessSubmitFails(submitOk, crashAt) ==
    CASE crashAt = "record" -> 2
      [] crashAt = "submit" \/ ~submitOk -> 4
      [] OTHER -> 5

\* how many of those calls are made: all of them, whatever queue_submit
\* returns (renderer.rs:458 drops its result), unless the process dies in one
CallsMade(submitOk, crashAt) ==
    CASE crashAt = "record" -> 2
      [] crashAt = "submit" -> 4
      [] OTHER -> 5

\* renderer.rs:458: a submission that the queue accepts makes the command
\* buffer and the fence pending and consumes the acquire semaphore's signal.
Submitted(f, accepted) ==
    [fences |-> IF accepted THEN [in_flight_fences EXCEPT ![f.fence] = "pending"]
                ELSE in_flight_fences,
     buffers |-> [buffers EXCEPT ![f.cmd_buffer] =
                     IF accepted THEN "pending" ELSE "executable"],
     sems |-> IF accepted THEN [image_available EXCEPT ![f.slot] = "unsignaled"]
              ELSE image_available]

Release(f, submitOk, crashAt) ==
    /\ pc \in {"idle", "panicked", "dropped"}
    /\ f \in frames
    /\ CanCrash(f, crashAt)
    /\ submitOk \/ (faults < MaxFaults /\ crashAt \notin {"record", "submit"})
    /\ faults' = IF submitOk THEN faults ELSE faults + 1
    /\ frames' = frames \ {f}
    /\ pc' = IF crashAt = "none" THEN pc ELSE "crashed"
    /\ \E made \in {CallsMade(submitOk, crashAt)} :
       \E sub \in {Submitted(f, submitOk /\ made >= 4 /\ crashAt # "submit")} :
           /\ in_flight_fences' = sub.fences
           /\ buffers' = IF made >= 4 THEN sub.buffers
                         ELSE [buffers EXCEPT ![f.cmd_buffer] = "recording"]
           /\ image_available' = sub.sems
           /\ nSubmit' = IF made >= 4 THEN nSubmit + 1 ELSE nSubmit
           /\ nPresent' = IF made >= 5 THEN nPresent + 1 ELSE nPresent
           /\ acquired' = IF made >= 5 /\ f.swapchain = swapchain.swapchain
                          THEN acquired \ {f.image_index}
                          ELSE acquired
           /\ last' = [NoCall EXCEPT !.op = "release", !.slot = f.slot,
                         !.image = f.image_index, !.extent = f.extent,
                         !.ret = IF crashAt = "none" THEN "ok" ELSE "crash",
                         !.ops = SubSeq(ReleaseOps(f), 1, made)]
    /\ UNCHANGED << needs_rebuild, current_frame, swapchain, created,
                    destroyed, destroyed_views, sync_alive, sync_images,
                    images_in_flight, nSuccess, pipelines, layouts, builds >>

\* --------------------------------------------------------- PipelineManager
\* PipelineId::all(): the variants in declaration order
all == << BasicGeometry, UI, Text >>

\* What one PipelineId::build call can do: "ok"; "err", an Err passed up by a
\* `?` (shader bytes, shader module, descriptor set layout, pipeline layout);
\* "panic", the expect() on create_graphics_pipelines (mesh.rs:318-321).
Outcomes == {"ok", "err", "panic"}

\* the running state of a call on the cache; ret is "running" until it returns
Cache ==
    [ret |-> "running", pipelines |-> pipelines, layouts |-> layouts,
     builds |-> builds, pipeline |-> None, ops |-> << >>]

\* the handle Vulkan gives the next pipeline (or layout) made for id: fresh
NewHandle(c, id) == Cardinality(PipelineId) * c.builds[id].made + id

\* the contains_key test left out: the pipeline is built whether cached or not
build_pipeline_unchecked(c, id, outcome) ==
    IF c.ret # "running" THEN c
    ELSE LET b == [c EXCEPT !.builds[id].tried = @ + 1,
                            !.ops = Append(@, Op("build", id, None, None))]
         IN  CASE outcome = "ok" ->
                    [b EXCEPT !.pipelines[id] = NewHandle(c, id),
                              !.layouts[id] = NewHandle(c, id),
                              !.builds[id].made = @ + 1]
               [] outcome = "err" -> [b EXCEPT !.ret = "err"]
               [] OTHER -> [b EXCEPT !.ret = "panic"]

\* the layout of a pipeline that was built not put into the layout map
build_pipeline_layout_lost(c, id, outcome) ==
    IF c.ret # "running" THEN c
    ELSE IF c.pipelines[id] # None THEN c
    ELSE LET b == [c EXCEPT !.builds[id].tried = @ + 1,
                            !.ops = Append(@, Op("build", id, None, None))]
         IN  CASE outcome = "ok" ->
                    [b EXCEPT !.pipelines[id] = NewHandle(c, id),
                              !.builds[id].made = @ + 1]
               [] outcome = "err" -> [b EXCEPT !.ret = "err"]
               [] OTHER -> [b EXCEPT !.ret = "panic"]

\* pipeline_manager.rs:131-141
build_pipeline(c, id, outcome) ==
    IF c.ret # "running" THEN c
    ELSE IF c.pipelines[id] # None THEN c
    ELSE LET b == [c EXCEPT !.builds[id].tried = @ + 1,
                            !.ops = Append(@, Op("build", id, None, None))]
         IN  CASE outcome = "ok" ->
                    [b EXCEPT !.pipelines[id] = NewHandle(c, id),
                              !.layouts[id] = NewHandle(c, id),
                              !.builds[id].made = @ + 1]
               [] outcome = "err" -> [b EXCEPT !.ret = "err"]
               [] OTHER -> [b EXCEPT !.ret = "panic"]

\* pipeline_manager.rs:144-149
get(id, outcome) ==
    LET c == IF pipelines[id] = None THEN build_pipeline(Cache, id, outcome)
             ELSE Cache
    IN  IF c.ret = "running"
        THEN [c EXCEPT !.ret = "ok", !.pipeline = c.pipelines[id]]
        ELSE c

\* the loop of build_all from the k-th id on; `?` leaves it at the first Err
RECURSIVE build_from(_, _, _)
build_from(c, k, outcomes) ==
    IF k > Len(all) THEN c
    ELSE build_from(build_pipeline(c, all[k], outcomes[all[k]]), k + 1, outcomes)

\* pipeline_manager.rs:123-128
build_all(outcomes) ==
    LET c == build_from(Cache, 1, outcomes)
    IN  IF c.ret = "running" THEN [c EXCEPT !.ret = "ok"] ELSE c

\* the ids for which the call c ran PipelineId::build
Built(c) == {c.ops[k][2] : k \in 1 .. Len(c.ops)}

\* the call returns (or unwinds) and leaves the cache as c has it
Returned(op, id, c) ==
    /\ \A i \in Built(c) : builds[i].tried < MaxBuilds
    /\ pipelines' = c.pipelines
    /\ layouts' = c.layouts
    /\ builds' = c.builds
    /\ pc' = IF c.ret = "panic" THEN "panicked" ELSE pc
    /\ last' = [NoCall EXCEPT !.op = op, !.ret = c.ret, !.id = id,
                  !.pipeline = c.pipeline, !.ops = c.ops]
    /\ UNCHANGED << needs_rebuild, current_frame, swapchain, created, destroyed,
                    destroyed_views, sync_alive, sync_images, in_flight_fences,
                    images_in_flight, buffers, image_available, acquired, frames,
                    nSuccess, nSubmit, nPresent, faults >>

\* Renderer::get_pipeline (renderer.rs:387-389), that is PipelineManager::get
GetPipeline(id, outcome) ==
    /\ pc = "idle"
    /\ \E c \in {get(id, outcome)} :
          \* an outcome no build consumes is not enumerated twice
          /\ id \in Built(c) \/ outcome = "ok"
          /\ Returned("get", id, c)

BuildAll(outcomes) ==
    /\ pc = "idle"
    /\ \E c \in {build_all(outcomes)} :
          /\ \A i \in PipelineId \ Built(c) : outcomes[i] = "ok"
          /\ Returned("build_all", None, c)

\* pipeline_manager.rs:152-154: the layout cached for id, None when there is none
get_layout(id) == layouts[id]

\* Renderer::get_pipeline_layout (renderer.rs:391-393), that is
\* PipelineManager::get_layout: a read of the layout map.
GetPipelineLayout(id) ==
    /\ pc = "idle"
    /\ last' = [NoCall EXCEPT !.op = "get_layout", !.id = id,
                  !.ret = IF get_layout(id) = None THEN "none" ELSE "some",
                  !.pipeline = get_layout(id)]
    /\ UNCHANGED << pc, needs_rebuild, current_frame, swapchain, created, destroyed,
                    destroyed_views, sync_alive, sync_images, in_flight_fences,
                    images_in_flight, buffers, image_available, acquired, frames,
                    nSuccess, nSubmit, nPresent, faults, pipelines, layouts,
                    builds >>

\* pipeline_manager.rs:157-170
DropPipelineManagerOps ==
    << Op("device_wait_idle", None, None, None),
       Op("destroy_pipelines", None, None, None),
       Op("destroy_pipeline_layouts", None, None, None) >>

DropPipelineManager ==
    /\ pc \in {"idle", "panicked"}
    /\ pc' = "dropped"
    /\ pipelines' = [id \in PipelineId |-> None]
    /\ layouts' = [id \in PipelineId |-> None]
    /\ last' = [NoCall EXCEPT !.op = "drop_pipeline_manager",
                  !.ops = DropPipelineManagerOps]
    /\ UNCHANGED << needs_rebuild, current_frame, swapchain, created, destroyed,
                    destroyed_views, sync_alive, sync_images, in_flight_fences,
                    images_in_flight, buffers, image_available, acquired, frames,
                    nSuccess, nSubmit, nPresent, faults, builds >>

\* --------------------------------------------------------- Drop for Renderer
\* renderer.rs:413-431, then the fields in declaration order (renderer.rs:
\* 187-198): swapchain (swapchain.rs:190-200), command_pool (command_pool.rs:
\* 97-102, which destroys nothing), frame_sync (sync.rs:112-129),
\* pipeline_manager (pipeline_manager.rs:157-170).
\* the teardown with none of its device-idle waits
DropOpsUnwaited ==
    << Op("destroy_image_views", swapchain.image_views, None, None),
       Op("destroy_swapchain", swapchain.swapchain, None, None),
       Op("drop_command_pool", None, None, None),
       Op("destroy_semaphores", None, None, None),
       Op("destroy_fences", None, None, None),
       Op("destroy_pipelines", None, None, None) >>

DropOps ==
    << Op("device_wait_idle", None, None, None),
       Op("device_wait_idle", None, None, None),
       Op("destroy_image_views", swapchain.image_views, None, None),
       Op("destroy_swapchain", swapchain.swapchain, None, None),
       Op("drop_command_pool", None, None, None),
       Op("device_wait_idle", None, None, None),
       Op("destroy_semaphores", None, None, None),
       Op("destroy_fences", None, None, None),
       Op("device_wait_idle", None, None, None),
       Op("destroy_pipelines", None, None, None) >>

\* The fields of a Renderer are dropped in the order of their declaration
\* (renderer.rs:187-198) once Renderer::drop has returned: context comes
\* first, and when the Renderer holds the last reference to it, dropping the
\* Arc runs VulkanContext::drop (context.rs:306-312) before any other field.
DropOpsOf(last_reference) ==
    IF last_reference
    THEN << DropOps[1], Op("destroy_instance", None, None, None) >>
            \o SubSeq(DropOps, 2, Len(DropOps))
    ELSE DropOps

DropRenderer(last_reference) ==
    /\ pc \in {"idle", "panicked"}
    /\ pc' = "dropped"
    /\ in_flight_fences' = IdleFences(in_flight_fences)
    /\ buffers' = IdleBuffers(buffers)
    /\ destroyed' = destroyed \cup {swapchain.swapchain}
    /\ destroyed_views' = destroyed_views \cup ({swapchain.image_views} \ {None})
    /\ sync_alive' = FALSE
    /\ pipelines' = [id \in PipelineId |-> None]
    /\ layouts' = [id \in PipelineId |-> None]
    /\ last' = [NoCall EXCEPT !.op = "drop", !.ops = DropOpsOf(last_reference)]
    /\ UNCHANGED << needs_rebuild, current_frame, swapchain, created,
                    sync_images, images_in_flight, image_available, acquired, frames,
                    nSuccess, nSubmit, nPresent, faults, builds >>

\* ---------------------------------------------------------- GPU progress
GpuComplete(s) ==
    /\ in_flight_fences[s] = "pending"
    /\ in_flight_fences' = Completed(in_flight_fences, s)
    /\ buffers' = Retired(buffers, s)
    /\ UNCHANGED << pc, needs_rebuild, current_frame, swapchain, created,
                    destroyed, destroyed_views, sync_alive, sync_images,
                    images_in_flight, image_available, acquired, frames, nSuccess,
                    nSubmit, nPresent, faults, last, pipelines, layouts, builds >>

ImageInputs == (0 .. (MaxImages - 1)) \cup {None}

\* Every interleaving of the API the types allow, with the GPU running beside.
Next ==
    \/ \E w \in Dims, h \in Dims, n \in ImageCounts, ok \in BOOLEAN :
          HandleResize(w, h, n, ok)
    \/ \E fail \in FailPoints, img \in ImageInputs : BeginFrame(fail, img)
    \/ \E f \in frames, ok \in BOOLEAN, crashAt \in CrashPoints :
          Release(f, ok, crashAt)
    \/ \E last_reference \in BOOLEAN : DropRenderer(last_reference)
    \/ \E s \in Slots : GpuComplete(s)

Spec == Init /\ [][Next]_vars

\* The runs with no resize and no teardown: a Renderer built for a 1x1 surface
\* and driven through begin_frame and the release of the frames it hands out.
InitCycles == Init /\ swapchain.extent = << 1, 1 >>

NextCycles ==
    \/ \E fail \in FailPoints, img \in ImageInputs : BeginFrameLong(fail, img)
    \/ \E f \in frames, ok \in BOOLEAN, crashAt \in CrashPoints :
          Release(f, ok, crashAt)
    \/ \E s \in Slots : GpuComplete(s)

SpecCycles == InitCycles /\ [][NextCycles]_vars

\* The runs with no resize that end in the teardown of the Renderer.
NextTeardown ==
    \/ \E fail \in FailPoints, img \in ImageInputs : BeginFrame(fail, img)
    \/ \E f \in frames, ok \in BOOLEAN, crashAt \in CrashPoints :
          Release(f, ok, crashAt)
    \/ \E last_reference \in BOOLEAN : DropRenderer(last_reference)
    \/ \E s \in Slots : GpuComplete(s)

SpecTeardown == InitCycles /\ [][NextTeardown]_vars

\* The runs of a caller that releases every frame before it calls begin_frame
\* again, the call and its return told apart.  The thread that is inside
\* begin_frame keeps running, and the GPU finishes every batch submitted to it.
NextLive ==
    \/ BeginFrameCall
    \/ \E fail \in FailPoints, img \in ImageInputs : BeginFrameReturn(fail, img)
    \/ \E f \in frames, ok \in BOOLEAN, crashAt \in CrashPoints :
          Release(f, ok, crashAt)
    \/ \E s \in Slots : GpuComplete(s)

FairLive ==
    /\ WF_vars(\E fail \in FailPoints, img \in ImageInputs :
                  BeginFrameReturn(fail, img))
    /\ \A s \in Slots : WF_vars(GpuComplete(s))

SpecLive == InitCycles /\ [][NextLive]_vars /\ FairLive

\* The runs that drive a PipelineManager from new to its drop.
\* PipelineManager::new (pipeline_manager.rs:114-120): both maps empty.
InitPipelines ==
    /\ InitFrame
    /\ swapchain.extent = << 1, 1 >>
    /\ swapchain.images = min_image_count
    /\ pipelines = [id \in PipelineId |-> None]
    /\ layouts = [id \in PipelineId |-> None]
    /\ builds = [id \in PipelineId |-> [tried |-> 0, made |-> 0]]

NextPipelines ==
    \/ \E id \in PipelineId, outcome \in Outcomes : GetPipeline(id, outcome)
    \/ \E outcomes \in [PipelineId -> Outcomes] : BuildAll(outcomes)
    \/ \E id \in PipelineId : GetPipelineLayout(id)
    \/ DropPipelineManager

SpecPipelines == InitPipelines /\ [][NextPipelines]_vars

\* ================================================================ claims
\* the position of the first call named name in a trace, 0 when there is none
FirstCall(ops, name) ==
    IF \E k \in 1 .. Len(ops) : ops[k][1] = name
    THEN CHOOSE k \in 1 .. Len(ops) :
            /\ ops[k][1] = name
            /\ \A j \in 1 .. (k - 1) : ops[j][1] # name
    ELSE 0

\* C1  Owner-fence safety.  In every begin_frame call that hands out a frame
\* for an image whose owner entry holds a fence (the fence recorded by the
\* call that acquired the image before), a wait on that fence comes before
\* the reset of the slot's command buffer in the call's trace.
C1_OwnerFenceSafety ==
    [][(nSuccess' = nSuccess + 1 /\ images_in_flight[last'.image] # None)
          => \E j \in 1 .. (FirstCall(last'.ops, "reset_command_buffer") - 1) :
                last'.ops[j] = Op("wait_for_fences",
                                  images_in_flight[last'.image], None, None)]_vars

\* a frame was handed out for an image owned by another slot's fence, after
\* begin_frame waited on that fence
C1_Witness ==
    /\ last.op = "begin_frame"
    /\ last.ret = "frame"
    /\ \E j \in 1 .. Len(last.ops) :
          /\ last.ops[j][1] = "wait_for_fences"
          /\ last.ops[j][2] # get_fence(last.slot)

\* C2  No destruction under a live frame.  While a RenderFrame is unreleased,
\* the swapchain it will present to, that swapchain's image views and the
\* semaphores and fence it will submit with are not destroyed.
C2_NoDestroyWhileReferenced ==
    \A f \in frames :
       /\ f.swapchain \notin destroyed
       /\ f.swapchain \notin destroyed_views
       /\ sync_alive

\* C3  Slot rotation.  With no resize, once N frames have been handed out and
\* all of them released, the current slot index is N mod F.
C3_SlotRotation ==
    frames = {} => current_frame = nSuccess % max_frames_in_flight

\* ten full cycles have run and the index is back at slot 0
C3_Witness ==
    /\ frames = {}
    /\ nSuccess = LongRun
    /\ nSubmit = LongRun
    /\ current_frame = LongRun % max_frames_in_flight

\* the handle of the render-finished semaphore of image i and of the acquire
\* semaphore of slot s, by their creation order in FrameSynchronizer::new
RenderFinishedOfImage(i) == max_frames_in_flight + i

AcquireOfSlot(s) == s

\* C4  Release order.  Dropping the frame of slot s and image i ends the
\* recording, then submits once, waiting on the acquire semaphore of slot s
\* and signalling the render-finished semaphore of image i and the fence of
\* slot s, then presents image i once, waiting on that render-finished
\* semaphore.
C4_ReleaseOrder ==
    (last.op = "release" /\ last.ret = "ok") =>
       /\ Len(last.ops) = 5
       /\ last.ops[3] = Op("end_command_buffer", last.slot, None, None)
       /\ last.ops[4] = Op("queue_submit", AcquireOfSlot(last.slot),
                           RenderFinishedOfImage(last.image), last.slot)
       /\ last.ops[5][1] = "queue_present"
       /\ last.ops[5][2] = RenderFinishedOfImage(last.image)
       /\ last.ops[5][4] = last.image

\* a frame whose slot and image indices differ has been released
C4_Witness ==
    /\ last.op = "release"
    /\ last.ret = "ok"
    /\ last.slot # last.image
    /\ nPresent > 0

\* C5  One submission and one present per cycle.  With no resize, the numbers
\* of queue submissions and of presents both equal the number of frames
\* handed out and released; a begin_frame that returns None adds to neither.
C5_OneSubmitOnePresent ==
    /\ nSubmit = nSuccess - Cardinality(frames)
    /\ nPresent = nSubmit

\* F = 2 and ten cycles done: ten submissions and ten presents
C5_Witness ==
    /\ max_frames_in_flight = 2
    /\ nSuccess = LongRun
    /\ frames = {}
    /\ nSubmit = LongRun
    /\ nPresent = LongRun
    /\ faults > 0

\* the step is a call of op on the API: it wrote the call record
Called(op) == last'.op = op /\ last' # last

\* C6  Out-of-date recovery.  When the acquire of a begin_frame call reports
\* "out of date", the next call on the API, if it is begin_frame, hands out a
\* frame unless one of its own Vulkan calls fails or blocks.
C6_OutOfDateRecovery ==
    [][(last.op = "begin_frame" /\ last.ret = "none_out_of_date"
           /\ Called("begin_frame"))
          => last'.ret \in {"frame", "hung", "panic"} \cup Failed]_vars

\* C7  Deferred recreate.  A begin_frame call that finds the rebuild flag set
\* recreates the swapchain first, clears the flag and returns None.
C7_DeferredRecreate ==
    [][(needs_rebuild /\ Called("begin_frame"))
          => /\ created' = created + 1
             /\ swapchain'.swapchain # swapchain.swapchain
             /\ ~needs_rebuild'
             /\ last'.ret = "none_rebuild"]_vars

C9_ResizeIdempotent ==
    [][(Called("handle_resize") /\ << last'.w, last'.h >> = swapchain.extent)
          => /\ swapchain' = swapchain
             /\ created' = created
             /\ destroyed' = destroyed
             /\ destroyed_views' = destroyed_views]_vars

\* handle_resize was called with the extent of a swapchain that an earlier
\* resize had created
C9_Witness ==
    /\ last.op = "handle_resize"
    /\ << last.w, last.h >> = swapchain.extent
    /\ last.ret = "noop"
    /\ swapchain.swapchain > 0

\* C10, as claimed.  For every (W, H), a begin_frame that hands out a frame
\* right after handle_resize(W, H) gives it the extent (W, H).
C10_ResizeCorrectAnySize ==
    [][(last.op = "handle_resize" /\ nSuccess' = nSuccess + 1)
          => last'.extent = << last.w, last.h >>]_vars

\* C10, amended.  For every W > 0 and H > 0: handle_resize(W, H) leaves the
\* swapchain extent at (W, H); no other call changes the extent; and a frame
\* handed out has the extent of the swapchain.  So the first frame handed out
\* after handle_resize(W, H) has extent (W, H).
C10_ResizeCorrect ==
    [][/\ (Called("handle_resize") /\ last'.w > 0 /\ last'.h > 0
              /\ last'.ret # "panic")
            => swapchain'.extent = << last'.w, last'.h >>
       /\ (last.op = "handle_resize" /\ last.w > 0 /\ last.h > 0
              /\ nSuccess' = nSuccess + 1)
            => /\ last'.extent = << last.w, last.h >>
               /\ \E f \in frames' \ frames : f.extent = << last.w, last.h >>
       /\ nSuccess' = nSuccess + 1
            => /\ last'.extent = swapchain.extent
               /\ \E f \in frames' \ frames : f.extent = swapchain.extent
       /\ ~Called("handle_resize") => swapchain'.extent = swapchain.extent]_vars

\* the first frame of the run was handed out right after a resize that
\* replaced the swapchain
C10_Witness ==
    /\ last.op = "begin_frame"
    /\ last.ret = "frame"
    /\ nSuccess = 1
    /\ swapchain.swapchain > 0
    /\ \E f \in frames : f.swapchain = swapchain.swapchain
                         /\ f.extent = swapchain.extent
                         /\ last.extent = swapchain.extent

C12_HardErrorNoFlag ==
    [][(Called("begin_frame") /\ last'.ret = "none_acquire")
          => /\ ~needs_rebuild'
             /\ frames' = frames
             /\ nSuccess' = nSuccess]_vars

\* the acquire failed hard in the second slot, after a first frame
C12_Witness ==
    /\ last.op = "begin_frame"
    /\ last.ret = "none_acquire"
    /\ last.slot = 1
    /\ ~needs_rebuild
    /\ last.ops[Len(last.ops)][1] = "acquire_next_image"

C14_FailuresAreFatal ==
    [][/\ (Called("begin_frame")
              /\ last'.ret \in Failed \ {"none_out_of_date", "none_acquire"})
            => pc' # "idle"
       /\ (Called("release") /\ faults' > faults)
            => (pc' # "idle" /\ last'.ret # "ok")]_vars

\* the calls of a teardown trace that destroy a fence, a semaphore, the
\* command pool, the swapchain or its image views
Destroying == {"destroy_image_views", "destroy_swapchain", "drop_command_pool",
               "destroy_semaphores", "destroy_fences"}

\* before call k of the trace a device-idle wait was made, with no queue
\* submission between that wait and call k
IdleBefore(ops, k) ==
    \E j \in 1 .. (k - 1) :
       /\ ops[j][1] = "device_wait_idle"
       /\ \A i \in (j + 1) .. (k - 1) : ops[i][1] # "queue_submit"

\* C15  Teardown ordering.  In the teardown of a Renderer every destruction of
\* a fence, semaphore, command pool, swapchain or image view comes after a
\* device-idle wait with no queue submission in between, and no batch is
\* pending on the GPU when the teardown has run.
C15_TeardownOrder ==
    last.op = "drop" =>
       /\ \A k \in 1 .. Len(last.ops) :
             last.ops[k][1] \in Destroying => IdleBefore(last.ops, k)
       /\ \A s \in Slots : in_flight_fences[s] # "pending" /\ buffers[s] # "pending"

\* a Renderer that had submitted work was torn down
C15_Witness ==
    /\ last.op = "drop"
    /\ pc = "dropped"
    /\ nSubmit > 0
    /\ ~sync_alive
    /\ swapchain.swapchain \in destroyed
    /\ \E k \in 1 .. Len(last.ops) : last.ops[k][1] = "destroy_fences"

\* C16  Pipeline memoization.  Over any sequence of get and build_all calls at
\* most one pipeline is ever made for an id: a get(id) that finds id cached
\* returns the cached handle and builds nothing, and a get(id) that succeeds
\* on an uncached id builds once and returns the handle it cached.
C16_PipelineMemoized ==
    [][/\ \A id \in PipelineId : builds'[id].made <= 1
       /\ (Called("get") /\ pipelines[last'.id] # None)
            => /\ last'.ret = "ok"
               /\ last'.pipeline = pipelines[last'.id]
               /\ pipelines' = pipelines
               /\ layouts' = layouts
               /\ builds' = builds
       /\ (Called("get") /\ pipelines[last'.id] = None /\ last'.ret = "ok")
            => /\ builds'[last'.id].made = builds[last'.id].made + 1
               /\ last'.pipeline # None
               /\ last'.pipeline = pipelines'[last'.id]]_vars

\* a get returned the handle that an earlier call had built and cached
C16_Witness ==
    /\ last.op = "get"
    /\ last.ret = "ok"
    /\ last.ops = << >>
    /\ builds[last.id] = [tried |-> 1, made |-> 1]
    /\ last.pipeline = pipelines[last.id]
    /\ last.pipeline # None

\* C17  Failed build.  When the build that a get(id) runs fails, get returns
\* the error to its caller (the thread goes on) and the cache has no entry
\* for id, neither pipeline nor layout, so that a later get(id) builds again.
C17_FailedBuildReturnsError ==
    [][(/\ Called("get")
        /\ builds'[last'.id].tried > builds[last'.id].tried
        /\ builds'[last'.id].made = builds[last'.id].made)
          => /\ last'.ret = "err"
             /\ pc' = "idle"
             /\ pipelines'[last'.id] = None
             /\ layouts'[last'.id] = None]_vars

\* the positions of the owner-fence waits in the trace of a begin_frame call:
\* the fence waits that come after the acquire
OwnerWaits(ops) ==
    {k \in 1 .. Len(ops) :
        /\ ops[k][1] = "wait_for_fences"
        /\ FirstCall(ops, "acquire_next_image") > 0
        /\ k > FirstCall(ops, "acquire_next_image")}

C19_WaitForFrameBounded ==
    ~(/\ last.op = "begin_frame"
      /\ last.ret = "hung"
      /\ last.ops = << Op("wait_for_fences", get_fence(last.slot), None, None) >>)

\* C20  Slot reuse.  A begin_frame call that resets or begins the command
\* buffer of its slot has first waited on the slot's fence, and the wait
\* returned because the fence was signaled or its batch finished: the command
\* buffer is pending only while the fence of its slot is, so the work that was
\* submitted with the slot before has finished when the buffer is reset.
C20_SlotReuseAfterFence ==
    [][(/\ Called("begin_frame")
        /\ \/ FirstCall(last'.ops, "reset_command_buffer") > 0
           \/ FirstCall(last'.ops, "begin_command_buffer") > 0)
          => /\ last'.ops[1] = Op("wait_for_fences", get_fence(current_frame),
                                  None, None)
             /\ in_flight_fences[current_frame] \in {"signaled", "pending"}
             /\ buffers[current_frame] = "pending"
                   => in_flight_fences[current_frame] = "pending"
             /\ last'.ret = "frame" => buffers'[current_frame] = "recording"]_vars

\* a slot was taken again after the frame that occupied it before had been
\* submitted
C20_Witness ==
    /\ last.op = "begin_frame"
    /\ last.ret = "frame"
    /\ nSuccess > max_frames_in_flight
    /\ nSubmit >= max_frames_in_flight
    /\ last.ops[1] = Op("wait_for_fences", get_fence(last.slot), None, None)
    /\ buffers[last.slot] = "recording"

C23_RecreateOrder ==
    [][(Called("handle_resize") /\ last'.ret = "recreated")
          => LET ops     == last'.ops
                 create  == FirstCall(ops, "create_swapchain")
                 replace == FirstCall(ops, "replace")
                 views   == FirstCall(ops, "destroy_image_views")
                 destroy == FirstCall(ops, "destroy_swapchain")
             IN  /\ ops[1][1] = "device_wait_idle"
                 /\ 1 < create
                 /\ ops[create] = Op("create_swapchain", swapchain'.swapchain,
                                     swapchain.swapchain, None)
                 /\ swapchain.swapchain \notin destroyed
                 /\ create < replace
                 /\ ops[replace] = Op("replace", swapchain'.swapchain,
                                      swapchain'.extent[1], swapchain'.extent[2])
                 /\ replace < views
                 /\ \E k \in (replace + 1) .. (views - 1) :
                       ops[k][1] = "device_wait_idle"
                 /\ views < destroy
                 /\ ops[views] = Op("destroy_image_views", swapchain.image_views,
                                    None, None)
                 /\ ops[destroy] = Op("destroy_swapchain", swapchain.swapchain,
                                      None, None)
                 /\ Cardinality(Calls(ops, "destroy_swapchain")) = 1
                 /\ Cardinality(Calls(ops, "destroy_image_views")) = 1
                 /\ swapchain'.swapchain # swapchain.swapchain
                 /\ destroyed' = destroyed \cup {swapchain.swapchain}
                 /\ swapchain'.swapchain \notin destroyed']_vars

\* a swapchain was recreated while a submitted batch was still running
C23_Witness ==
    /\ last.op = "handle_resize"
    /\ last.ret = "recreated"
    /\ Len(last.ops) = 6
    /\ nSubmit > 0
    /\ swapchain.swapchain \notin destroyed
    /\ destroyed # {}

C25_OneRecorderPerBuffer ==
    /\ [](\A f \in frames : \A g \in frames \ {f} :
             f.slot # g.slot /\ f.cmd_buffer # g.cmd_buffer)
    /\ [][(Called("begin_frame") /\ Calls(last'.ops, "reset_command_buffer") # {})
             => /\ \A k \in Calls(last'.ops, "reset_command_buffer") :
                      last'.ops[k] = Op("reset_command_buffer", current_frame,
                                        None, None)
                /\ \A f \in frames : f.cmd_buffer # current_frame
                /\ buffers[current_frame] # "recording"
                /\ buffers[current_frame] = "pending"
                      => /\ Len(last'.ops) >= 2
                         /\ last'.ops[2] = Op("blocked", get_fence(current_frame),
                                              None, None)]_vars

\* two frames are unreleased, and the later one reset a command buffer whose
\* batch was still running when its begin_frame call began
C25_Witness ==
    /\ last.op = "begin_frame"
    /\ last.ret = "frame"
    /\ Cardinality(frames) = 2
    /\ nSuccess > max_frames_in_flight
    /\ Len(last.ops) >= 2
    /\ last.ops[2][1] = "blocked"

\* C26  Owner entries.  The owner entry of an image is None whenever no frame
\* is rendering into the image: it is None unless a frame that acquired the
\* image is unreleased or the batch guarded by the owner fence is still
\* running on the GPU.
C26_OwnerNoneWhenIdle ==
    \A i \in DOMAIN images_in_flight :
       images_in_flight[i] # None
          => \/ \E f \in frames : f.image_index = i
             \/ in_flight_fences[images_in_flight[i]] = "pending"

\* C27  Teardown order.  When a Renderer is dropped its resources are torn down
\* in reverse declaration order: the pipelines first, then the semaphores and
\* fences, then the command pool, then the swapchain and its image views, and
\* the Vulkan instance last, after every object created from it.
C27_ReverseDeclarationOrder ==
    last.op = "drop" =>
       LET ops       == last.ops
           pipes     == FirstCall(ops, "destroy_pipelines")
           sems      == FirstCall(ops, "destroy_semaphores")
           fences    == FirstCall(ops, "destroy_fences")
           pool      == FirstCall(ops, "drop_command_pool")
           views     == FirstCall(ops, "destroy_image_views")
           swap      == FirstCall(ops, "destroy_swapchain")
       IN  /\ 0 < pipes
           /\ pipes < sems
           /\ pipes < fences
           /\ sems < pool
           /\ fences < pool
           /\ pool < views
           /\ pool < swap
           /\ \A k \in Calls(ops, "destroy_instance") : k = Len(ops)

\* C28  Command pool teardown.  Dropping the Renderer destroys the command
\* pool: the teardown calls destroy_command_pool on the pool made by
\* Renderer::new, after CommandPool is dropped no pool is left undestroyed.
C28_CommandPoolDestroyed ==
    (last.op = "drop" /\ pc = "dropped")
       => \E k \in Calls(last.ops, "drop_command_pool") :
             \E j \in k .. Len(last.ops) :
                last.ops[j][1] = "destroy_command_pool"

\* C29  Per-image arrays.  After any sequence of begin_frame, release and
\* handle_resize calls the number of render-finished semaphores and the number
\* of owner entries equal the number of images of the current swapchain, and
\* every image index that acquire returns is an index into both arrays.
C29_PerImageArraysMatch ==
    pc \in {"idle", "panicked"} =>
       /\ sync_images = swapchain.images
       /\ DOMAIN images_in_flight = 0 .. (swapchain.images - 1)
       /\ \A i \in Available : i < sync_images /\ i \in DOMAIN images_in_flight
       /\ ~(last.op = "begin_frame" /\ last.ret = "panic")

\* C30  No stuck slot after None.  Whenever begin_frame returns None, for
\* whatever reason, the completion fence of the current slot is signaled or is
\* pending on a submitted batch that will signal it, so that the wait_for_frame
\* of the next begin_frame call cannot block for ever.
C30_NoneLeavesFenceLive ==
    [][(Called("begin_frame") /\ last'.ret \in Failed \cup {"none_rebuild"})
          => in_flight_fences'[current_frame'] \in {"signaled", "pending"}]_vars

\* C35  Slot index.  The slot index is always one of 0 .. max_frames_in_flight - 1
\* and changes only in a begin_frame call that returns a frame: a begin_frame
\* call that returns None, panics or hangs, and every handle_resize call,
\* leaves it as it was.
C35_SlotIndexChangesOnlyWithFrame ==
    /\ [](current_frame \in 0 .. (max_frames_in_flight - 1))
    /\ [][/\ (Called("begin_frame") /\ last'.ret # "frame")
                => current_frame' = current_frame
          /\ Called("handle_resize") => current_frame' = current_frame
          /\ current_frame' # current_frame
                => (Called("begin_frame") /\ last'.ret = "frame")]_vars

\* the slot index is 1 after a handle_resize call that recreated the swapchain
\* and after a begin_frame call that returned None
C35_Witness ==
    /\ current_frame = 1
    /\ last.op = "begin_frame"
    /\ last.ret \in Failed \cup {"none_rebuild"}
    /\ created > 1

\* C34  Zero-size resize.  A handle_resize call with width 0 or height 0 never
\* recreates the swapchain and changes nothing of it, so that on a Renderer
\* constructed with a non-zero extent both dimensions of the swapchain extent
\* are non-zero after any sequence of calls.
C34_ZeroSizeIgnored ==
    /\ [](swapchain.extent[1] > 0 /\ swapchain.extent[2] > 0)
    /\ [][(Called("handle_resize") /\ (last'.w = 0 \/ last'.h = 0))
             => /\ last'.ret = "noop"
                /\ last'.ops = << >>
                /\ swapchain' = swapchain
                /\ created' = created
                /\ destroyed' = destroyed]_vars

\* a handle_resize call with a zero dimension was made on a swapchain that an
\* earlier call had recreated
C34_Witness ==
    /\ last.op = "handle_resize"
    /\ (last.w = 0 \/ last.h = 0)
    /\ (last.w > 0 \/ last.h > 0)
    /\ created > 1
    /\ swapchain.extent[1] > 0
    /\ swapchain.extent[2] > 0

\* C36  Pipeline and layout maps.  The pipeline map and the layout map of a
\* PipelineManager always have the same key set, after any sequence of
\* build_all and get calls, failed builds included: get_layout(id) returns
\* Some, the layout made with the pipeline, exactly when a pipeline is cached
\* for id, and it changes neither map.
C36_LayoutsFollowPipelines ==
    /\ []({id \in PipelineId : pipelines[id] # None}
             = {id \in PipelineId : layouts[id] # None})
    /\ [][Called("get_layout")
             => /\ (last'.ret = "some") <=> (pipelines[last'.id] # None)
                /\ (last'.ret = "none") <=> (pipelines[last'.id] = None)
                /\ last'.ret = "some" => last'.pipeline = layouts[last'.id]
                /\ pipelines' = pipelines
                /\ layouts' = layouts]_vars

\* get_layout returned Some for an id while the build of another id had failed
\* and left that id out of both maps
C36_Witness ==
    /\ last.op = "get_layout"
    /\ last.ret = "some"
    /\ \E id \in PipelineId :
          /\ builds[id].tried > builds[id].made
          /\ pipelines[id] = None
          /\ layouts[id] = None

\* C33  Swapchain handles.  Over any sequence of Swapchain::new, recreate and
\* drop, every swapchain handle and every set of image views that was created
\* is destroyed exactly once: recreate and drop destroy only what has not been
\* destroyed before, recreate never destroys the handle or the views that are
\* current when it returns, and after the drop nothing that was created is
\* left undestroyed.
C33_SwapchainsDestroyedOnce ==
    /\ [](pc = "dropped"
             => /\ destroyed = 0 .. (created - 1)
                /\ destroyed_views = 0 .. (created - 1))
    /\ [][/\ (Called("handle_resize") /\ last'.ret = "recreated")
                => /\ swapchain.swapchain \notin destroyed
                   /\ swapchain.image_views \notin destroyed_views
                   /\ swapchain'.swapchain \notin destroyed'
                   /\ swapchain'.image_views \notin destroyed_views'
          /\ Called("drop")
                => /\ swapchain.swapchain \notin destroyed
                   /\ swapchain.image_views \notin destroyed_views]_vars

\* C32  Acquire semaphore reuse.  The acquire semaphore of a slot is never
\* passed to acquire_next_image while it carries a signal that no queue
\* submission has waited on: a begin_frame call that reaches the acquire finds
\* the semaphore of its slot unsignaled, on every path, those that follow a
\* call that returned None after its acquire had succeeded included.
C32_AcquireSemaphoreUnsignaled ==
    [][(Called("begin_frame") /\ Calls(last'.ops, "acquire_next_image") # {})
          => /\ \A k \in Calls(last'.ops, "acquire_next_image") :
                   last'.ops[k][3] = get_acquire_semaphore(current_frame)
             /\ image_available[current_frame] = "unsignaled"]_vars

\* C31  Termination of begin_frame.  When every frame is released before the
\* next begin_frame call and the GPU finishes every submitted batch, every
\* begin_frame call terminates: a call that was entered returns to its caller.
C31_BeginFrameTerminates ==
    (pc = "calling") ~> (pc = "idle")

====
